---- MODULE Spec2Model ----
(***************************************************************************)
(* The interactive Gantt dashboard of app.py and main.py as a state        *)
(* machine: the server start-up (load, test gate, date derivation), the    *)
(* browser-side Dash stores and display properties of one session, and one *)
(* action per Dash callback.  Dash runs the callbacks triggered by one     *)
(* user event as a chain; `pending` is the chain still to run.             *)
(*                                                                         *)
(* Representation                                                          *)
(*   Timestamp   : whole days since 1970-01-01 (every timestamp of the     *)
(*                 program is a midnight)                                  *)
(*   Timedelta   : whole days                                              *)
(*   ISO strings : records [kind, ymd]; kind tells the textual form        *)
(*   ISO duration: record [D, H, M, S] ("P59DT0H0M0S")                     *)
(*   Optional    : <<>> is None, <<x>> is the value x                      *)
(*   DataFrame   : [index |-> <<keys>>, data |-> <<rows>>]                 *)
(***************************************************************************)
EXTENDS Integers, Sequences, FiniteSets, TLC

VARIABLES
    variant,                   \* "app" (app.py) or "main" (main.py)
    pc,                        \* "start": before main(); "serving": app.run
    csv,                       \* data/cronograma_sop.csv as found on disk
    df_raw,                    \* main(): the raw table (loaded or example)
    df_inicial_calculado,      \* the DataFrame main() derives (main.py: df)
    page,                      \* "none": no page loaded yet; "loaded"
    gantt_data_store,          \* dcc.Store 'gantt-data-store' (JSON)
    original_gantt_data_store, \* dcc.Store 'original-gantt-data-store' (app.py)
    selected_task_store,       \* dcc.Store 'selected-task-store'
    selected_project_store,    \* dcc.Store 'selected-project-store' (main.py)
    selected_task_name,        \* html.Span 'selected-task-name' children
    picker_disabled,           \* DatePickerSingle disabled
    picker_date,               \* DatePickerSingle date
    clickData,                 \* dcc.Graph clickData
    n_clicks,                  \* 'reset-dates-button' n_clicks
    figure,                    \* dcc.Graph figure
    pending,                   \* callbacks Dash still has to run, in order
    other_session,             \* a second browser tab on app.py: its stores
    last                       \* history: the callback (or user event) of the
                               \* last step, what it returned and the browser
                               \* state it ran in

vars == <<variant, pc, csv, df_raw, df_inicial_calculado, page,
          gantt_data_store, original_gantt_data_store, selected_task_store,
          selected_project_store, selected_task_name, picker_disabled,
          picker_date, clickData, n_clicks, figure, pending, other_session,
          last>>

---------------------------------------------------------------------------
(* Bounds of the model *)

\* how many distinct dates the user can pick in the date picker
NumPickDates == 2
\* how often the reset button is pressed between two page loads
MaxResetClicks == 1
\* the months of the generated one-task CSV files
MaxMonth == 2
\* the base dates main.py's calcular_datas is tried with, in days after
\* ordem_de_servico
MaxBaseShift == 2

---------------------------------------------------------------------------
(* Optional values (Python None) *)

None == <<>>
Some(x) == <<x>>
IsNone(o) == o = <<>>
Val(o) == o[1]

---------------------------------------------------------------------------
(* Calendar: what pandas does when it formats a Timestamp as ISO text and  *)
(* parses ISO text back (proleptic Gregorian calendar).                    *)

\* Timestamp (days since 1970-01-01) -> <<year, month, day>>
civil_from_days(z0) ==
    LET z    == z0 + 719468
        era  == z \div 146097
        doe  == z - era * 146097
        yoe  == (doe - doe \div 1460 + doe \div 36524 - doe \div 146096) \div 365
        doy  == doe - (365 * yoe + yoe \div 4 - yoe \div 100)
        mp   == (5 * doy + 2) \div 153
        d    == doy - (153 * mp + 2) \div 5 + 1
        m    == IF mp < 10 THEN mp + 3 ELSE mp - 9
        y    == yoe + era * 400 + (IF m <= 2 THEN 1 ELSE 0)
    IN  <<y, m, d>>

\* <<year, month, day>> -> Timestamp
days_from_civil(ymd) ==
    LET y   == ymd[1] - (IF ymd[2] <= 2 THEN 1 ELSE 0)
        era == y \div 400
        yoe == y - era * 400
        mp  == IF ymd[2] > 2 THEN ymd[2] - 3 ELSE ymd[2] + 9
        doy == (153 * mp + 2) \div 5 + ymd[3] - 1
        doe == yoe * 365 + yoe \div 4 - yoe \div 100 + doy
    IN  era * 146097 + doe - 719468

\* the textual forms of a date that occur in the program
NoDate == [kind |-> "none", ymd |-> <<0, 0, 0>>]             \* None
EmptyDate == [kind |-> "empty", ymd |-> <<0, 0, 0>>]         \* ''
GarbageDate == [kind |-> "garbage", ymd |-> <<0, 0, 0>>]     \* 'abc'
PickedDate(ymd) == [kind |-> "date", ymd |-> ymd]            \* 'YYYY-MM-DD'
\* a Timestamp in a callback's return value, as Dash's JSON encoder writes it
DashJsonDate(ts) == [kind |-> "datetime", ymd |-> civil_from_days(ts)]
\* a Timestamp cell as DataFrame.to_json(date_format='iso') writes it
IsoMs(ts) == [kind |-> "iso_ms", ymd |-> civil_from_days(ts)]

\* Python truthiness of a date property: None and '' are falsy
DateFalsy(s) == s.kind \in {"none", "empty"}
\* pd.to_datetime raises on text that is no date
DateParses(s) == s.kind \in {"date", "datetime", "iso_ms"}
\* pd.to_datetime(text)
pd_to_datetime(s) == days_from_civil(s.ymd)

\* a Timedelta cell as to_json(date_format='iso') writes it: "P<d>DT0H0M0S"
IsoDuration(td) == [D |-> td, H |-> 0, M |-> 0, S |-> 0]
\* pd.to_timedelta(text), in whole days
pd_to_timedelta(s) == s.D + (s.H * 3600 + s.M * 60 + s.S) \div 86400

---------------------------------------------------------------------------
(* Module-level constants of the program *)

\* ordem_de_servico = pd.to_datetime('2025-08-01')
ordem_de_servico == days_from_civil(<<2025, 8, 1>>)

DIAS_NO_MES_ASSUMIDO == 30

required_cols == {"Item", "Nick", "Projetos", "MesInicio", "MesFim"}

---------------------------------------------------------------------------
(* DataFrames *)

Range(s) == {s[i] : i \in DOMAIN s}

EmptyFrame == [index |-> <<>>, data |-> <<>>]
\* pd.DataFrame(rows) / pd.read_csv: a RangeIndex 0..n-1
Frame(rows) == [index |-> [i \in DOMAIN rows |-> i - 1], data |-> rows]
Keys(df) == Range(df.index)
\* position of the row labelled k
PosOf(df, k) == CHOOSE i \in DOMAIN df.index : df.index[i] = k
\* df.loc[k] (the caller checks k \in Keys(df): .loc raises KeyError otherwise)
Loc(df, k) == df.data[PosOf(df, k)]
\* df.loc[k, col] = v for each field of upd
SetLoc(df, k, upd) ==
    [df EXCEPT !.data[PosOf(df, k)] =
        [f \in DOMAIN @ |-> IF f \in DOMAIN upd THEN upd[f] ELSE @[f]]]
\* df[df['Nick'] == nick]: the positions of the matching rows, in order
NickMatches(df, nick) == {i \in DOMAIN df.data : df.data[i].Nick = nick}
Min(S) == CHOOSE x \in S : \A y \in S : x <= y

\* pandas' display.max_rows and display.min_rows: str(DataFrame) shows a
\* table of more than display_max_rows rows as its first and last
\* display_min_rows / 2 rows
display_max_rows == 60
display_min_rows == 10
\* the rows f"{invalid_rows_display}" shows
to_string(rows) ==
    IF Len(rows) <= display_max_rows THEN rows
    ELSE SubSeq(rows, 1, display_min_rows \div 2)
         \o SubSeq(rows, Len(rows) - (display_min_rows - display_min_rows \div 2) + 1,
                   Len(rows))

---------------------------------------------------------------------------
(* Date derivation *)

\* app.py calcular_datas(df_original): base date is the global, end offset 29
App_calcular_datas_bug_end30(df_original) ==
    [df_original EXCEPT !.data =
        [i \in DOMAIN @ |->
            LET r     == @[i]
                ini   == ordem_de_servico + (r.MesInicio - 1) * 30
                fim   == ordem_de_servico + (r.MesFim - 1) * 30 + 30
            IN  [Item |-> r.Item, Nick |-> r.Nick, Projetos |-> r.Projetos,
                 MesInicio |-> r.MesInicio, MesFim |-> r.MesFim,
                 DataInicio |-> ini, DataTermino |-> fim,
                 Duracao |-> fim - ini]]]

App_calcular_datas(df_original) ==
    [df_original EXCEPT !.data =
        [i \in DOMAIN @ |->
            LET r     == @[i]
                ini   == ordem_de_servico + (r.MesInicio - 1) * 30
                fim   == ordem_de_servico + (r.MesFim - 1) * 30 + 29
            IN  [Item |-> r.Item, Nick |-> r.Nick, Projetos |-> r.Projetos,
                 MesInicio |-> r.MesInicio, MesFim |-> r.MesFim,
                 DataInicio |-> ini, DataTermino |-> fim,
                 Duracao |-> fim - ini]]]

\* main.py calcular_datas(df_original, data_base)
Main_calcular_datas_bug_end30(df_original, data_base) ==
    [df_original EXCEPT !.data =
        [i \in DOMAIN @ |->
            LET r     == @[i]
                ini   == data_base + (r.MesInicio - 1) * DIAS_NO_MES_ASSUMIDO
                fim   == data_base + (r.MesFim - 1) * DIAS_NO_MES_ASSUMIDO
                                   + DIAS_NO_MES_ASSUMIDO
            IN  [Item |-> r.Item, Nick |-> r.Nick, Projetos |-> r.Projetos,
                 MesInicio |-> r.MesInicio, MesFim |-> r.MesFim,
                 DataInicio |-> ini, DataTermino |-> fim,
                 Duracao |-> fim - ini]]]

Main_calcular_datas(df_original, data_base) ==
    [df_original EXCEPT !.data =
        [i \in DOMAIN @ |->
            LET r     == @[i]
                ini   == data_base + (r.MesInicio - 1) * DIAS_NO_MES_ASSUMIDO
                fim   == data_base + (r.MesFim - 1) * DIAS_NO_MES_ASSUMIDO
                                   + (DIAS_NO_MES_ASSUMIDO - 1)
            IN  [Item |-> r.Item, Nick |-> r.Nick, Projetos |-> r.Projetos,
                 MesInicio |-> r.MesInicio, MesFim |-> r.MesFim,
                 DataInicio |-> ini, DataTermino |-> fim,
                 Duracao |-> fim - ini]]]

---------------------------------------------------------------------------
(* Serialisation of a schedule to and from the store representation *)

\* df.to_json(date_format='iso', orient='split')
to_json(df) ==
    [df EXCEPT !.data =
        [i \in DOMAIN @ |->
            [@[i] EXCEPT !.DataInicio  = IsoMs(@),
                         !.DataTermino = IsoMs(@),
                         !.Duracao     = IsoDuration(@)]]]

\* a deserialisation that takes 'Duracao' to be end - start
read_json_update_rederives(json_data) ==
    [index |-> json_data.index,
     data  |-> [i \in DOMAIN json_data.data |->
                  LET r == json_data.data[i]
                  IN  [Item |-> r.Item, Nick |-> r.Nick,
                       Projetos |-> r.Projetos,
                       MesInicio |-> r.MesInicio, MesFim |-> r.MesFim,
                       DataInicio |-> pd_to_datetime(r.DataInicio),
                       DataTermino |-> pd_to_datetime(r.DataTermino),
                       Duracao |-> pd_to_datetime(r.DataTermino)
                                   - pd_to_datetime(r.DataInicio)]]]

\* pd.read_json(json, orient='split', convert_dates=False) followed by
\* pd.to_datetime on the two date columns and pd.to_timedelta on 'Duracao'
read_json_update(json_data) ==
    [json_data EXCEPT !.data =
        [i \in DOMAIN @ |->
            [@[i] EXCEPT !.DataInicio  = pd_to_datetime(@),
                         !.DataTermino = pd_to_datetime(@),
                         !.Duracao     = pd_to_timedelta(@)]]]

\* pd.read_json(json, orient='split', convert_dates=[the date columns])
read_json_dates(json_data) ==
    [json_data EXCEPT !.data =
        [i \in DOMAIN @ |->
            [@[i] EXCEPT !.DataInicio  = pd_to_datetime(@),
                         !.DataTermino = pd_to_datetime(@)]]]

---------------------------------------------------------------------------
(* The CSV file and the loader *)

Row(item, nick, proj, mi, mf) ==
    [Item |-> item, Nick |-> nick, Projetos |-> proj,
     MesInicio |-> mi, MesFim |-> mf]

\* the built-in example table main() falls back to
FallbackRows ==
    << Row(1, "Tarefa A", "Projeto 1", 1, 3),
       Row(2, "Tarefa B", "Projeto 1", 4, 6),
       Row(3, "Tarefa C", "Projeto 2", 2, 5) >>

CsvFile(exists, columns, rows) ==
    [exists |-> exists, columns |-> columns, rows |-> rows]

\* the contents of data/cronograma_sop.csv the model starts from
CsvMissing == CsvFile(FALSE, {}, <<>>)
CsvValid ==
    CsvFile(TRUE, required_cols,
            << Row(10, "Alfa", "P1", 1, 2), Row(20, "Beta", "P2", 2, 2) >>)
CsvSameNick ==
    CsvFile(TRUE, required_cols,
            << Row(1, "Alfa", "P1", 1, 1), Row(2, "Alfa", "P1", 2, 3) >>)
CsvBadRange ==
    CsvFile(TRUE, required_cols,
            << Row(1, "Alfa", "P1", 3, 2), Row(2, "Beta", "P1", 1, 1) >>)
\* a valid first row followed by two rows whose months are reversed
CsvBadRows ==
    CsvFile(TRUE, required_cols,
            << Row(1, "Alfa", "P1", 1, 2), Row(2, "Beta", "P1", 2, 1),
               Row(3, "Gama", "P2", 3, 1) >>)
\* more rows with reversed months than str(DataFrame) shows in full
CsvManyBadRows ==
    CsvFile(TRUE, required_cols,
            [i \in 1..(display_max_rows + 1) |-> Row(i, "Alfa", "P1", 2, 1)])
\* a file without the column 'Mês Fim'
CsvNoMesFim ==
    CsvFile(TRUE, required_cols \ {"MesFim"}, << >>)
\* a header line and no data row
CsvNoRows == CsvFile(TRUE, required_cols, << >>)
\* one-task files over every pair of months up to MaxMonth
\* project codes: text of the file that reads as numbers
numeric_text == {"101", "102"}
CsvNumericProjects ==
    CsvFile(TRUE, required_cols,
            << Row(1, "Alfa", "101", 1, 1), Row(2, "Beta", "102", 1, 2) >>)
CsvOneTask ==
    { CsvFile(TRUE, required_cols, << Row(1, "Alfa", "P1", mi, mf) >>) :
        mi \in 1..MaxMonth, mf \in 1..MaxMonth }
CsvFiles ==
    {CsvMissing, CsvValid, CsvSameNick, CsvBadRange, CsvBadRows,
     CsvManyBadRows, CsvNoMesFim, CsvNoRows, CsvNumericProjects}
        \cup CsvOneTask

LoadOk(df) == [ok |-> TRUE, df |-> df, error |-> "", invalid_rows |-> <<>>]
LoadError(error, invalid_rows) ==
    [ok |-> FALSE, df |-> EmptyFrame, error |-> error,
     invalid_rows |-> invalid_rows]

\* the elements of seq s that satisfy Keep, in order
RECURSIVE SelectPos(_, _)
SelectPos(flags, i) ==
    IF i > Len(flags) THEN <<>>
    ELSE (IF flags[i] THEN <<i>> ELSE <<>>) \o SelectPos(flags, i + 1)

\* load_schedule_data(file_path)
load_schedule_data(file) ==
    IF ~file.exists THEN LoadError("FileNotFoundError", <<>>)
    ELSE IF ~(required_cols \subseteq file.columns)
         THEN LoadError("ValueError: usecols", <<>>)
    ELSE LET df == Frame(file.rows) IN
         IF Len(df.data) = 0 THEN LoadError("ValueError: empty", <<>>)
         ELSE LET bad == [i \in DOMAIN df.data |->
                            ~(df.data[i].MesInicio <= df.data[i].MesFim)]
                  pos == SelectPos(bad, 1)
              IN  IF pos # <<>>
                  THEN LoadError("ValueError: invalid range",
                         to_string(
                           [j \in DOMAIN pos |->
                              [row |-> df.index[pos[j]] + 2,
                               Item |-> df.data[pos[j]].Item,
                               MesInicio |-> df.data[pos[j]].MesInicio,
                               MesFim |-> df.data[pos[j]].MesFim]]))
                  ELSE LoadOk(df)

\* calcular_datas as main() and run_tests of the variant call it
calcular_datas(v, df) ==
    IF v = "app" THEN App_calcular_datas(df)
    ELSE Main_calcular_datas(df, ordem_de_servico)

\* run_tests(df_para_testar): TRUE iff the three start-up tests pass
run_tests(v, df_para_testar) ==
    LET test1 == Len(df_para_testar.data) > 0
                 /\ \A i \in DOMAIN df_para_testar.data :
                        required_cols \subseteq DOMAIN df_para_testar.data[i]
        test_data == Frame(<< Row(99, "Teste", "TestProj", 1, 2) >>)
        df_calculado  == calcular_datas(v, test_data)
        expected_start == days_from_civil(<<2025, 8, 1>>)
        expected_end   == IF v = "app"
                          THEN days_from_civil(<<2025, 8, 1>>) + (2 - 1) * 30 + 29
                          ELSE ordem_de_servico
                               + (2 - 1) * DIAS_NO_MES_ASSUMIDO
                               + (DIAS_NO_MES_ASSUMIDO - 1)
        test2 == /\ df_calculado.data[1].DataInicio = expected_start
                 /\ df_calculado.data[1].DataTermino = expected_end
                 /\ df_calculado.data[1].Duracao = expected_end - expected_start
        df_com_datas == calcular_datas(v, df_para_testar)
        json_data == to_json(df_com_datas)
        task_index == df_com_datas.index[1]
        task_duration == Loc(df_com_datas, task_index).Duracao
        new_start_dt == pd_to_datetime(PickedDate(<<2025, 9, 15>>))
        df_updated == SetLoc(read_json_update(json_data), task_index,
                        [DataInicio |-> new_start_dt,
                         DataTermino |-> new_start_dt + task_duration])
        test3 == /\ Loc(df_updated, task_index).DataInicio = new_start_dt
                 /\ Loc(df_updated, task_index).DataTermino
                        = new_start_dt + task_duration
    IN  test1 /\ test2 /\ test3

---------------------------------------------------------------------------
(* Start-up *)

\* the layout's initial property values that do not depend on the data
NoFigure == <<>>
\* no callback has run since the page was loaded
NoEvent == [kind |-> "none", pre |-> <<>>]
NoCall == [callback |-> "none", kind |-> "none", pre |-> <<>>,
           event |-> NoEvent]
LabelNone == <<"Nenhuma">>
LabelOf(nick) == <<"'", nick, "'">>

\* df_raw of a main() that goes on with an empty table when loading fails
DfRaw_no_fallback(file) ==
    LET loaded == load_schedule_data(file)
    IN  IF loaded.ok THEN loaded.df ELSE EmptyFrame

\* df_raw of main(): the loaded table, or the example table when loading fails
DfRaw(file) ==
    LET loaded == load_schedule_data(file)
    IN  IF loaded.ok THEN loaded.df ELSE Frame(FallbackRows)

\* no second tab is open
NoSession ==
    [open |-> FALSE, same_browser |-> FALSE, store |-> None,
     original |-> None, selected |-> None]

Init ==
    /\ variant \in {"app", "main"}
    /\ pc = "start"
    /\ csv \in CsvFiles
    /\ df_raw = EmptyFrame
    /\ df_inicial_calculado = EmptyFrame
    /\ other_session = NoSession
    /\ page = "none"
    /\ gantt_data_store = None
    /\ original_gantt_data_store = None
    /\ selected_task_store = None
    /\ selected_project_store = None
    /\ selected_task_name = LabelNone
    /\ picker_disabled = TRUE
    /\ picker_date = NoDate
    /\ clickData = None
    /\ n_clicks = 0
    /\ figure = NoFigure
    /\ pending = <<>>
    /\ last = NoCall

browser == <<page, gantt_data_store, original_gantt_data_store,
             selected_task_store, selected_project_store, selected_task_name,
             picker_disabled, picker_date, clickData, n_clicks, figure,
             pending, other_session, last>>

\* main() whose calcular_datas adds the date columns to the table it is given
Main_calcular_datas_in_place ==
    /\ pc = "start"
    /\ LET raw == DfRaw(csv)
       IN  IF run_tests(variant, raw)
           THEN /\ df_inicial_calculado' = calcular_datas(variant, raw)
                /\ df_raw' = calcular_datas(variant, raw)
                /\ pc' = "serving"
           ELSE /\ df_inicial_calculado' = df_inicial_calculado
                /\ df_raw' = raw
                /\ pc' = "not_started"
    /\ UNCHANGED <<variant, csv, browser>>

\* main(): load (or fall back), run the test gate, derive the dates, serve.
\* run_tests is given df_raw.copy() and calcular_datas writes its columns
\* to df_original.copy(): df_raw stays the table that was loaded
Main ==
    /\ pc = "start"
    /\ LET raw == DfRaw(csv)
       IN  /\ df_raw' = raw
           /\ IF run_tests(variant, raw)
              THEN /\ df_inicial_calculado' = calcular_datas(variant, raw)
                   /\ pc' = "serving"
              ELSE /\ df_inicial_calculado' = df_inicial_calculado
                   /\ pc' = "not_started"
    /\ UNCHANGED <<variant, csv, browser>>

---------------------------------------------------------------------------
(* What a callback hands back to Dash *)

\* dash.no_update (or a tuple of them): Dash writes nothing, triggers nothing
NoUpdate == [kind |-> "no_update"]
\* an uncaught exception: Dash answers with an error and writes nothing
Raised == [kind |-> "raise"]

---------------------------------------------------------------------------
(* Click handling *)

\* the outputs that clear the selection
App_cleared ==
    [kind |-> "ok", selected |-> None, name |-> LabelNone, disabled |-> TRUE,
     date |-> NoDate]

\* app.py store_selected_task without the toggle branch
App_store_selected_task_no_toggle(click, json_data, current_selected_index) ==
    IF IsNone(click) THEN App_cleared
    ELSE IF IsNone(json_data) THEN Raised
    ELSE LET df_current == read_json_dates(Val(json_data))
             task_nick  == Val(click)
             task_info  == NickMatches(df_current, task_nick)
         IN  IF task_info = {} THEN NoUpdate
             ELSE LET first == Min(task_info)
                      clicked_task_index == df_current.index[first]
                  IN  [kind |-> "ok", selected |-> Some(clicked_task_index),
                       name |-> LabelOf(task_nick), disabled |-> FALSE,
                       date |-> DashJsonDate(df_current.data[first].DataInicio)]

\* app.py store_selected_task that clears the selection on a switch as well
App_store_selected_task_always_clears(click, json_data, current_selected_index) ==
    IF IsNone(click) THEN App_cleared
    ELSE IF IsNone(json_data) THEN Raised
    ELSE LET df_current == read_json_dates(Val(json_data))
             task_info  == NickMatches(df_current, Val(click))
         IN  IF task_info = {} THEN NoUpdate
             ELSE IF IsNone(current_selected_index)
                  THEN App_store_selected_task_no_toggle(
                           click, json_data, current_selected_index)
                  ELSE App_cleared

\* app.py store_selected_task that selects the first task on an unknown nick
App_store_selected_task_unknown_selects(click, json_data, current_selected_index) ==
    IF IsNone(click) THEN App_cleared
    ELSE IF IsNone(json_data) THEN Raised
    ELSE LET df_current == read_json_dates(Val(json_data))
             task_info  == NickMatches(df_current, Val(click))
         IN  IF task_info = {}
             THEN IF df_current.index = <<>> THEN NoUpdate
                  ELSE [kind |-> "ok", selected |-> Some(df_current.index[1]),
                        name |-> LabelOf(Val(click)), disabled |-> FALSE,
                        date |-> DashJsonDate(df_current.data[1].DataInicio)]
             ELSE LET clicked_task_index == df_current.index[Min(task_info)]
                  IN  IF Some(clicked_task_index) = current_selected_index
                      THEN App_cleared
                      ELSE App_store_selected_task_no_toggle(
                               click, json_data, current_selected_index)

\* app.py store_selected_task that ignores a click outside the bars
App_store_selected_task_keeps_on_empty(click, json_data, current_selected_index) ==
    IF IsNone(click) THEN NoUpdate
    ELSE IF IsNone(json_data) THEN Raised
    ELSE LET df_current == read_json_dates(Val(json_data))
             task_info  == NickMatches(df_current, Val(click))
         IN  IF task_info = {} THEN NoUpdate
             ELSE LET clicked_task_index == df_current.index[Min(task_info)]
                  IN  IF Some(clicked_task_index) = current_selected_index
                      THEN App_cleared
                      ELSE App_store_selected_task_no_toggle(
                               click, json_data, current_selected_index)

\* app.py store_selected_task that leaves the label and the picker cleared
App_store_selected_task_cleared_display(click, json_data, current_selected_index) ==
    LET r == App_store_selected_task_no_toggle(click, json_data,
                                               current_selected_index)
    IN  IF r.kind # "ok" \/ IsNone(r.selected) THEN r
        ELSE IF r.selected = current_selected_index THEN App_cleared
        ELSE [r EXCEPT !.name = LabelNone, !.disabled = TRUE]

\* store_selected_task that stores the key after the clicked task's
App_store_selected_task_next_key(click, json_data, current_selected_index) ==
    IF IsNone(click) THEN App_cleared
    ELSE IF IsNone(json_data) THEN Raised
    ELSE LET df_current == read_json_dates(Val(json_data))
             task_nick  == Val(click)
             task_info  == NickMatches(df_current, task_nick)
         IN  IF task_info = {} THEN NoUpdate
             ELSE LET first == Min(task_info)
                      clicked_task_index == df_current.index[first]
                  IN  IF Some(clicked_task_index) = current_selected_index
                      THEN App_cleared
                      ELSE [kind |-> "ok",
                            selected |-> Some(clicked_task_index + 1),
                            name |-> LabelOf(task_nick), disabled |-> FALSE,
                            date |-> DashJsonDate(
                                        df_current.data[first].DataInicio)]

\* store_selected_task that hands the date picker the first row's start date
App_store_selected_task_first_date(click, json_data, current_selected_index) ==
    IF IsNone(click) THEN App_cleared
    ELSE IF IsNone(json_data) THEN Raised
    ELSE LET df_current == read_json_dates(Val(json_data))
             task_nick  == Val(click)
             task_info  == NickMatches(df_current, task_nick)
         IN  IF task_info = {} THEN NoUpdate
             ELSE LET first == Min(task_info)
                      clicked_task_index == df_current.index[first]
                  IN  IF Some(clicked_task_index) = current_selected_index
                      THEN App_cleared
                      ELSE [kind |-> "ok",
                            selected |-> Some(clicked_task_index),
                            name |-> LabelOf(task_nick), disabled |-> FALSE,
                            date |-> DashJsonDate(
                                        df_current.data[1].DataInicio)]

\* app.py store_selected_task(clickData, json_data, current_selected_index)
App_store_selected_task(click, json_data, current_selected_index) ==
    IF IsNone(click) THEN App_cleared
    ELSE IF IsNone(json_data) THEN Raised
    ELSE LET df_current == read_json_dates(Val(json_data))
             task_nick  == Val(click)
             task_info  == NickMatches(df_current, task_nick)
         IN  IF task_info = {} THEN NoUpdate
             ELSE LET first == Min(task_info)
                      clicked_task_index == df_current.index[first]
                  IN  IF Some(clicked_task_index) = current_selected_index
                      THEN App_cleared
                      ELSE [kind |-> "ok",
                            selected |-> Some(clicked_task_index),
                            name |-> LabelOf(task_nick), disabled |-> FALSE,
                            date |-> DashJsonDate(
                                        df_current.data[first].DataInicio)]

Main_cleared ==
    [kind |-> "ok", selected |-> None, name |-> LabelNone, disabled |-> TRUE,
     date |-> NoDate, project |-> None]

\* main.py store_selected_task(clickData, json_data)
Main_store_selected_task(click, json_data) ==
    IF IsNone(click) THEN Main_cleared
    ELSE IF IsNone(json_data) THEN Raised
    ELSE LET df_current == read_json_dates(Val(json_data))
             task_nick  == Val(click)
             task_info  == NickMatches(df_current, task_nick)
         IN  IF task_info = {} THEN NoUpdate
             ELSE LET first == Min(task_info)
                      task_index == df_current.index[first]
                  IN  [kind |-> "ok", selected |-> Some(task_index),
                       name |-> LabelOf(task_nick), disabled |-> FALSE,
                       date |-> DashJsonDate(df_current.data[first].DataInicio),
                       project |-> Some(df_current.data[first].Projetos)]

---------------------------------------------------------------------------
(* Reset (app.py only) *)

\* reset_to_original_dates with its guard on n_clicks inverted
reset_to_original_dates_inverted_guard(clicks, original_json_data) ==
    IF clicks # 0 \/ IsNone(original_json_data) THEN NoUpdate
    ELSE [kind |-> "ok", data |-> original_json_data, selected |-> None,
          name |-> LabelNone, disabled |-> TRUE, date |-> NoDate]

\* reset_to_original_dates(n_clicks, original_json_data)
reset_to_original_dates(clicks, original_json_data) ==
    IF clicks = 0 \/ IsNone(original_json_data) THEN NoUpdate
    ELSE [kind |-> "ok", data |-> original_json_data, selected |-> None,
          name |-> LabelNone, disabled |-> TRUE, date |-> NoDate]

---------------------------------------------------------------------------
(* Moving a task *)

\* the body of update_task_dates after the guard, as both variants have it
move_selected(new_start_date, task_index, json_data) ==
    IF IsNone(json_data) THEN Raised
    ELSE LET df_updated == read_json_update(Val(json_data)) IN
         IF Val(task_index) \notin Keys(df_updated) THEN Raised   \* KeyError
         ELSE IF ~DateParses(new_start_date) THEN Raised          \* ValueError
         ELSE LET duration     == Loc(df_updated, Val(task_index)).Duracao
                  new_start_dt == pd_to_datetime(new_start_date)
              IN  [kind |-> "ok",
                   data |-> Some(to_json(
                       SetLoc(df_updated, Val(task_index),
                              [DataInicio  |-> new_start_dt,
                               DataTermino |-> new_start_dt + duration])))]

\* update_task_dates that moves the start and leaves the end where it was
update_task_dates_keeps_end(new_start_date, task_index, json_data) ==
    IF DateFalsy(new_start_date) \/ IsNone(task_index) THEN NoUpdate
    ELSE IF IsNone(json_data) THEN Raised
    ELSE LET df_updated == read_json_update(Val(json_data)) IN
         IF Val(task_index) \notin Keys(df_updated) THEN Raised
         ELSE IF ~DateParses(new_start_date) THEN Raised
         ELSE [kind |-> "ok",
               data |-> Some(to_json(
                   SetLoc(df_updated, Val(task_index),
                          [DataInicio |-> pd_to_datetime(new_start_date)])))]

\* update_task_dates that, with nothing selected, moves the first task
update_task_dates_moves_first(new_start_date, task_index, json_data) ==
    IF DateFalsy(new_start_date) THEN NoUpdate
    ELSE IF IsNone(json_data) THEN Raised
    ELSE IF IsNone(task_index)
         THEN IF ~DateParses(new_start_date) \/ Val(json_data).index = <<>>
              THEN Raised
              ELSE move_selected(new_start_date,
                                 Some(Val(json_data).index[1]), json_data)
    ELSE move_selected(new_start_date, task_index, json_data)

\* update_task_dates that moves every task to the new start date
update_task_dates_moves_all(new_start_date, task_index, json_data) ==
    IF DateFalsy(new_start_date) \/ IsNone(task_index) THEN NoUpdate
    ELSE IF IsNone(json_data) THEN Raised
    ELSE LET df_updated == read_json_update(Val(json_data)) IN
         IF Val(task_index) \notin Keys(df_updated) THEN Raised
         ELSE IF ~DateParses(new_start_date) THEN Raised
         ELSE LET new_start_dt == pd_to_datetime(new_start_date)
              IN  [kind |-> "ok",
                   data |-> Some(to_json(
                      [df_updated EXCEPT !.data =
                          [i \in DOMAIN @ |->
                              [@[i] EXCEPT
                                  !.DataInicio  = new_start_dt,
                                  !.DataTermino =
                                      new_start_dt
                                      + df_updated.data[i].Duracao]]]))]

\* update_task_dates that moves the first row, whichever task is selected
update_task_dates_moves_first_row(new_start_date, task_index, json_data) ==
    IF DateFalsy(new_start_date) \/ IsNone(task_index) THEN NoUpdate
    ELSE IF IsNone(json_data) THEN Raised
    ELSE IF Val(json_data).index = <<>> THEN Raised
    ELSE move_selected(new_start_date, Some(Val(json_data).index[1]),
                       json_data)

\* app.py update_task_dates(new_start_date, task_index, json_data)
App_update_task_dates(new_start_date, task_index, json_data) ==
    IF DateFalsy(new_start_date) \/ IsNone(task_index) THEN NoUpdate
    ELSE move_selected(new_start_date, task_index, json_data)

\* main.py update_task_dates(new_start_date, task_index, json_data)
Main_update_task_dates(new_start_date, task_index, json_data) ==
    IF DateFalsy(new_start_date) \/ IsNone(task_index) THEN NoUpdate
    ELSE move_selected(new_start_date, task_index, json_data)

---------------------------------------------------------------------------
(* Rendering *)

\* opacities in hundredths, line widths in tenths
default_opacity == 100
dimmed_opacity == 35
Main_dimmed_opacity == 30
default_line_width == 5
selected_line_width == 50
default_line_color == "rgba(0,0,0,0.2)"

\* px.colors.qualitative.Plotly, the colour sequence px.timeline cycles through
Palette ==
    << "#636EFA", "#EF553B", "#00CC96", "#AB63FA", "#FFA15A",
       "#19D3F3", "#FF6692", "#B6E880", "#FF97FF", "#FECB52" >>

\* df.sort_values(by='Item', ascending=False): row positions, largest Item first
RECURSIVE SortItemDesc(_, _)
SortItemDesc(df, S) ==
    IF S = {} THEN <<>>
    ELSE LET m == CHOOSE i \in S : \A j \in S :
                     \/ df.data[i].Item > df.data[j].Item
                     \/ df.data[i].Item = df.data[j].Item /\ i <= j
         IN  <<m>> \o SortItemDesc(df, S \ {m})

\* the distinct elements of a sequence, in order of first appearance
RECURSIVE Distinct(_)
Distinct(s) ==
    IF s = <<>> THEN <<>>
    ELSE LET r == Distinct(SubSeq(s, 1, Len(s) - 1))
         IN  IF s[Len(s)] \in Range(r) THEN r ELSE Append(r, s[Len(s)])

\* pd.read_json(json_data, orient='split', ...) converts a column of text to
\* numbers when every cell of it reads as a number (dtype=True, the default)
reads_as_numbers(df) ==
    /\ df.data # <<>>
    /\ \A i \in DOMAIN df.data : df.data[i].Projetos \in numeric_text

\* px.timeline(df_chart, y='Nick', color='Projetos'): one trace per project,
\* in order of first appearance, each in a colour of the sequence; when the
\* colour column holds numbers, one unnamed trace of all the bars on a
\* continuous colour axis.  `idx` names the row each bar was drawn from
timeline(df) ==
    LET order    == SortItemDesc(df, DOMAIN df.data)
        projects == IF reads_as_numbers(df) THEN <<"">>
                    ELSE Distinct([i \in DOMAIN order |->
                                      df.data[order[i]].Projetos])
    IN  [t \in DOMAIN projects |->
            LET rows == IF reads_as_numbers(df) THEN order
                        ELSE SelectSeq(order,
                                LAMBDA i : df.data[i].Projetos = projects[t])
            IN  [name  |-> projects[t],
                 y     |-> [b \in DOMAIN rows |-> df.data[rows[b]].Nick],
                 idx   |-> [b \in DOMAIN rows |-> df.index[rows[b]]],
                 base  |-> [b \in DOMAIN rows |-> df.data[rows[b]].DataInicio],
                 x     |-> [b \in DOMAIN rows |->
                              df.data[rows[b]].DataTermino
                              - df.data[rows[b]].DataInicio],
                 color |-> IF reads_as_numbers(df) THEN "coloraxis"
                           ELSE Palette[((t - 1) % Len(Palette)) + 1]]]

\* list(y).index(v): the first position holding v
IndexOf(y, v) == Min({b \in DOMAIN y : y[b] = v})

\* the loop body of app.py update_gantt_chart for one trace
App_style_trace(trace, nick, project) ==
    LET n == Len(trace.y)
        highlighted == ~IsNone(nick) /\ ~IsNone(project)
        hit == /\ highlighted
               /\ trace.name = Val(project)
               /\ Val(nick) \in Range(trace.y)
        bar == IndexOf(trace.y, Val(nick))
    IN  [name |-> trace.name, y |-> trace.y, idx |-> trace.idx,
         base |-> trace.base, x |-> trace.x, color |-> trace.color,
         opacity |->
            [b \in 1..n |-> IF hit /\ b = bar THEN default_opacity
                            ELSE IF highlighted THEN dimmed_opacity
                            ELSE default_opacity],
         line_width |->
            [b \in 1..n |-> IF hit /\ b = bar THEN selected_line_width
                            ELSE default_line_width],
         line_color |->
            [b \in 1..n |-> IF hit /\ b = bar THEN trace.color
                            ELSE default_line_color]]

\* bool(trace.y) of the numpy array px stores in trace.y raises ValueError
\* when the array holds more than one element
TruthRaises(y) == Len(y) > 1

\* app.py update_gantt_chart(json_data, selected_task_idx_from_store)
App_update_gantt_chart(json_data, selected_task_idx_from_store) ==
    IF IsNone(json_data) THEN Raised
    ELSE LET df_chart == read_json_dates(Val(json_data))
             found == /\ ~IsNone(selected_task_idx_from_store)
                      /\ Val(selected_task_idx_from_store) \in Keys(df_chart)
             nick == IF found
                     THEN Some(Loc(df_chart,
                                   Val(selected_task_idx_from_store)).Nick)
                     ELSE None
             project == IF found
                        THEN Some(Loc(df_chart,
                                   Val(selected_task_idx_from_store)).Projetos)
                        ELSE None
             fig == timeline(df_chart)
         IN  IF \E t \in DOMAIN fig : TruthRaises(fig[t].y) THEN Raised
             ELSE [kind |-> "ok",
                   figure |-> [t \in DOMAIN fig |->
                                 App_style_trace(fig[t], nick, project)]]

\* main.py update_gantt_chart(json_data, selected_project)
Main_update_gantt_chart(json_data, selected_project) ==
    IF IsNone(json_data) THEN Raised
    ELSE LET fig == timeline(read_json_dates(Val(json_data)))
         IN  [kind |-> "ok",
              figure |-> [t \in DOMAIN fig |->
                 [name |-> fig[t].name, y |-> fig[t].y, idx |-> fig[t].idx,
                  base |-> fig[t].base, x |-> fig[t].x,
                  color |-> fig[t].color,
                  opacity |->
                     IF ~IsNone(selected_project)
                        /\ fig[t].name # Val(selected_project)
                     THEN Main_dimmed_opacity ELSE default_opacity]]]

---------------------------------------------------------------------------
(* The browser session *)

server == <<variant, pc, csv, df_raw, df_inicial_calculado>>

\* Dash runs the triggered callbacks in dependency order
CallbackOrder ==
    << "store_selected_task", "reset_to_original_dates",
       "update_task_dates", "update_gantt_chart" >>
Chain(S) == SelectSeq(CallbackOrder, LAMBDA c : c \in S)
\* the chain after the head ran and triggered the callbacks in S
Then(S) == Chain(Range(Tail(pending)) \cup S)
Running(c) == pending # <<>> /\ Head(pending) = c

\* the property values a callback can read
Snapshot ==
    [store |-> gantt_data_store, original |-> original_gantt_data_store,
     selected |-> selected_task_store, project |-> selected_project_store,
     name |-> selected_task_name, disabled |-> picker_disabled,
     date |-> picker_date, click |-> clickData, clicks |-> n_clicks,
     figure |-> figure]
\* callback c ran and handed back r; `event` stays the user event, and the
\* values it found, that started the chain c belongs to
Ran(c, r) ==
    [callback |-> c, kind |-> r.kind, pre |-> Snapshot, event |-> last.event]
\* the last step was the user event e
Did(e) ==
    [callback |-> "user", kind |-> e, pre |-> Snapshot,
     event |-> [kind |-> e, pre |-> Snapshot]]

\* the dates the user picks in the date picker
PickDates ==
    {PickedDate(civil_from_days(ordem_de_servico + 45 * i)) :
        i \in 1..NumPickDates}

\* the nicks on the vertical axis of the displayed chart
DisplayedNicks == UNION {Range(figure[t].y) : t \in DOMAIN figure}

Idle == pc = "serving" /\ page = "loaded" /\ pending = <<>>

\* a page load with 'selected-task-store' kept in the browser like
\* 'gantt-data-store'
PageLoad_keeps_selection ==
    /\ pc = "serving"
    /\ pending = <<>>
    /\ page' = "loaded"
    /\ gantt_data_store' =
          IF variant = "app" /\ page = "loaded" THEN gantt_data_store
          ELSE Some(to_json(df_inicial_calculado))
    /\ original_gantt_data_store' =
          IF variant = "app" THEN Some(to_json(df_inicial_calculado))
          ELSE None
    /\ selected_task_store' = selected_task_store
    /\ selected_project_store' = None
    /\ selected_task_name' = LabelNone
    /\ picker_disabled' = TRUE
    /\ picker_date' = NoDate
    /\ clickData' = None
    /\ n_clicks' = 0
    /\ figure' = NoFigure
    /\ pending' = Chain({"store_selected_task", "update_gantt_chart"})
    /\ last' = NoCall
    /\ UNCHANGED <<server, other_session>>

\* the browser loads (or reloads) the page: the layout's values, except that
\* app.py's 'gantt-data-store' (storage_type='local') keeps what it held
PageLoad ==
    /\ pc = "serving"
    /\ pending = <<>>
    /\ page' = "loaded"
    /\ gantt_data_store' =
          IF variant = "app" /\ page = "loaded" THEN gantt_data_store
          ELSE Some(to_json(df_inicial_calculado))
    /\ original_gantt_data_store' =
          IF variant = "app" THEN Some(to_json(df_inicial_calculado))
          ELSE None
    /\ selected_task_store' = None
    /\ selected_project_store' = None
    /\ selected_task_name' = LabelNone
    /\ picker_disabled' = TRUE
    /\ picker_date' = NoDate
    /\ clickData' = None
    /\ n_clicks' = 0
    /\ figure' = NoFigure
    /\ pending' = Chain({"store_selected_task", "update_gantt_chart"})
    /\ last' = NoCall
    /\ UNCHANGED <<server, other_session>>

\* the user clicks a bar of the chart
ClickBar ==
    /\ Idle
    /\ \E nick \in DisplayedNicks : clickData' = Some(nick)
    /\ pending' = Chain({"store_selected_task"})
    /\ last' = Did("ClickBar")
    /\ UNCHANGED <<server, other_session, page, gantt_data_store,
                   original_gantt_data_store,
                   selected_task_store, selected_project_store,
                   selected_task_name, picker_disabled, picker_date, n_clicks,
                   figure>>

\* the user clicks outside the bars: clickData arrives empty
ClickOutside ==
    /\ Idle
    /\ clickData' = None
    /\ pending' = Chain({"store_selected_task"})
    /\ last' = Did("ClickOutside")
    /\ UNCHANGED <<server, other_session, page, gantt_data_store,
                   original_gantt_data_store,
                   selected_task_store, selected_project_store,
                   selected_task_name, picker_disabled, picker_date, n_clicks,
                   figure>>

\* the user picks a date in the (enabled) date picker
PickDate ==
    /\ Idle
    /\ ~picker_disabled
    /\ \E d \in PickDates : picker_date' = d
    /\ pending' = Chain({"update_task_dates"})
    /\ last' = Did("PickDate")
    /\ UNCHANGED <<server, other_session, page, gantt_data_store,
                   original_gantt_data_store,
                   selected_task_store, selected_project_store,
                   selected_task_name, picker_disabled, clickData, n_clicks,
                   figure>>

\* the user presses 'Datas Originais' (app.py)
ClickReset ==
    /\ Idle
    /\ variant = "app"
    /\ n_clicks < MaxResetClicks
    /\ n_clicks' = n_clicks + 1
    /\ pending' = Chain({"reset_to_original_dates"})
    /\ last' = Did("ClickReset")
    /\ UNCHANGED <<server, other_session, page, gantt_data_store,
                   original_gantt_data_store,
                   selected_task_store, selected_project_store,
                   selected_task_name, picker_disabled, picker_date, clickData,
                   figure>>

\* callback store_selected_task of app.py
AppStoreSelectedTask ==
    /\ variant = "app"
    /\ Running("store_selected_task")
    /\ LET r == App_store_selected_task(clickData, gantt_data_store,
                                        selected_task_store)
       IN  /\ last' = Ran("store_selected_task", r)
           /\ IF r.kind = "ok"
              THEN /\ selected_task_store' = r.selected
                   /\ selected_task_name' = r.name
                   /\ picker_disabled' = r.disabled
                   /\ picker_date' = r.date
                   /\ pending' = Then({"update_task_dates", "update_gantt_chart"})
              ELSE /\ pending' = Tail(pending)
                   /\ UNCHANGED <<selected_task_store, selected_task_name,
                                  picker_disabled, picker_date>>
    /\ UNCHANGED <<server, other_session, page, gantt_data_store,
                   original_gantt_data_store,
                   selected_project_store, clickData, n_clicks, figure>>

\* callback store_selected_task of main.py
MainStoreSelectedTask ==
    /\ variant = "main"
    /\ Running("store_selected_task")
    /\ LET r == Main_store_selected_task(clickData, gantt_data_store)
       IN  /\ last' = Ran("store_selected_task", r)
           /\ IF r.kind = "ok"
              THEN /\ selected_task_store' = r.selected
                   /\ selected_task_name' = r.name
                   /\ picker_disabled' = r.disabled
                   /\ picker_date' = r.date
                   /\ selected_project_store' = r.project
                   /\ pending' = Then({"update_task_dates", "update_gantt_chart"})
              ELSE /\ pending' = Tail(pending)
                   /\ UNCHANGED <<selected_task_store, selected_task_name,
                                  picker_disabled, picker_date,
                                  selected_project_store>>
    /\ UNCHANGED <<server, other_session, page, gantt_data_store,
                   original_gantt_data_store,
                   clickData, n_clicks, figure>>

\* callback reset_to_original_dates of app.py
AppResetToOriginalDates ==
    /\ variant = "app"
    /\ Running("reset_to_original_dates")
    /\ LET r == reset_to_original_dates(n_clicks, original_gantt_data_store)
       IN  /\ last' = Ran("reset_to_original_dates", r)
           /\ IF r.kind = "ok"
              THEN /\ gantt_data_store' = r.data
                   /\ selected_task_store' = r.selected
                   /\ selected_task_name' = r.name
                   /\ picker_disabled' = r.disabled
                   /\ picker_date' = r.date
                   /\ pending' = Then({"update_task_dates", "update_gantt_chart"})
              ELSE /\ pending' = Tail(pending)
                   /\ UNCHANGED <<gantt_data_store, selected_task_store,
                                  selected_task_name, picker_disabled,
                                  picker_date>>
    /\ UNCHANGED <<server, other_session, page, original_gantt_data_store,
                   selected_project_store, clickData, n_clicks, figure>>

\* update_task_dates with 'original-gantt-data-store' as its Output
AppUpdateTaskDates_writes_original ==
    /\ variant = "app"
    /\ Running("update_task_dates")
    /\ LET r == App_update_task_dates(picker_date, selected_task_store,
                                      gantt_data_store)
       IN  /\ last' = Ran("update_task_dates", r)
           /\ IF r.kind = "ok"
              THEN /\ original_gantt_data_store' = r.data
                   /\ pending' = Then({"update_gantt_chart"})
              ELSE /\ pending' = Tail(pending)
                   /\ UNCHANGED original_gantt_data_store
    /\ UNCHANGED <<server, other_session, page, gantt_data_store,
                   selected_task_store, selected_project_store,
                   selected_task_name, picker_disabled, picker_date, clickData,
                   n_clicks, figure>>

\* callback update_task_dates of app.py
AppUpdateTaskDates ==
    /\ variant = "app"
    /\ Running("update_task_dates")
    /\ LET r == App_update_task_dates(picker_date, selected_task_store,
                                      gantt_data_store)
       IN  /\ last' = Ran("update_task_dates", r)
           /\ IF r.kind = "ok"
              THEN /\ gantt_data_store' = r.data
                   /\ pending' = Then({"update_gantt_chart"})
              ELSE /\ pending' = Tail(pending)
                   /\ UNCHANGED gantt_data_store
    /\ UNCHANGED <<server, other_session, page, original_gantt_data_store,
                   selected_task_store, selected_project_store,
                   selected_task_name, picker_disabled, picker_date, clickData,
                   n_clicks, figure>>

\* callback update_task_dates of main.py
MainUpdateTaskDates ==
    /\ variant = "main"
    /\ Running("update_task_dates")
    /\ LET r == Main_update_task_dates(picker_date, selected_task_store,
                                       gantt_data_store)
       IN  /\ last' = Ran("update_task_dates", r)
           /\ IF r.kind = "ok"
              THEN /\ gantt_data_store' = r.data
                   /\ pending' = Then({"update_gantt_chart"})
              ELSE /\ pending' = Tail(pending)
                   /\ UNCHANGED gantt_data_store
    /\ UNCHANGED <<server, other_session, page, original_gantt_data_store,
                   selected_task_store, selected_project_store,
                   selected_task_name, picker_disabled, picker_date, clickData,
                   n_clicks, figure>>

\* callback update_gantt_chart of app.py
AppUpdateGanttChart ==
    /\ variant = "app"
    /\ Running("update_gantt_chart")
    /\ LET r == App_update_gantt_chart(gantt_data_store, selected_task_store)
       IN  /\ figure' = IF r.kind = "ok" THEN r.figure ELSE figure
           /\ last' = Ran("update_gantt_chart", r)
    /\ pending' = Tail(pending)
    /\ UNCHANGED <<server, other_session, page, gantt_data_store,
                   original_gantt_data_store,
                   selected_task_store, selected_project_store,
                   selected_task_name, picker_disabled, picker_date, clickData,
                   n_clicks>>

\* callback update_gantt_chart of main.py
MainUpdateGanttChart ==
    /\ variant = "main"
    /\ Running("update_gantt_chart")
    /\ LET r == Main_update_gantt_chart(gantt_data_store,
                                        selected_project_store)
       IN  /\ figure' = IF r.kind = "ok" THEN r.figure ELSE figure
           /\ last' = Ran("update_gantt_chart", r)
    /\ pending' = Tail(pending)
    /\ UNCHANGED <<server, other_session, page, gantt_data_store,
                   original_gantt_data_store,
                   selected_task_store, selected_project_store,
                   selected_task_name, picker_disabled, picker_date, clickData,
                   n_clicks>>

Next ==
    \/ Main
    \/ PageLoad
    \/ ClickBar
    \/ ClickOutside
    \/ PickDate
    \/ ClickReset
    \/ AppStoreSelectedTask
    \/ MainStoreSelectedTask
    \/ AppResetToOriginalDates
    \/ AppUpdateTaskDates
    \/ MainUpdateTaskDates
    \/ AppUpdateGanttChart
    \/ MainUpdateGanttChart

Spec == Init /\ [][Next]_vars

---------------------------------------------------------------------------
(* Callbacks as functions of their request                                 *)
(*                                                                         *)
(* The server keeps no session state: each callback request carries the    *)
(* Input and State values, and the callback is a function of them.         *)
(* HandlerSpec adds, to the behaviours of Spec, sessions that start with   *)
(* one callback about to run on property values a session of Spec need not *)
(* reach: a nick that is not in the schedule, a selected key that is not   *)
(* in the schedule, a date text that is no date.                           *)

\* the DataFrame main() derives when it finds file
Derived(v, file) == calcular_datas(v, DfRaw(file))

\* df, and df with one task moved to a pick date
OneMoved(df) ==
    {df} \cup
    { SetLoc(df, k, [DataInicio  |-> pd_to_datetime(d),
                     DataTermino |-> pd_to_datetime(d) + Loc(df, k).Duracao]) :
        k \in Keys(df), d \in PickDates }

\* a nick no task has
UnknownNick == "Fantasma"
\* a key no task has: one past the RangeIndex
StaleKey(df) == Len(df.index)

RequestDates ==
    {NoDate, EmptyDate, GarbageDate, DashJsonDate(ordem_de_servico)}
        \cup PickDates

HandlerInit ==
    /\ variant \in {"app", "main"}
    /\ pc = "serving"
    /\ csv \in CsvFiles
    /\ df_raw = DfRaw(csv)
    /\ df_inicial_calculado = Derived(variant, csv)
    /\ other_session = NoSession
    /\ page = "loaded"
    /\ original_gantt_data_store =
          IF variant = "app" THEN Some(to_json(df_inicial_calculado)) ELSE None
    /\ \E df \in OneMoved(df_inicial_calculado) :
          /\ gantt_data_store = Some(to_json(df))
          /\ selected_task_store \in
                {None} \cup {Some(k) : k \in Keys(df) \cup {StaleKey(df)}}
          /\ selected_project_store =
                IF variant = "main" /\ ~IsNone(selected_task_store)
                   /\ Val(selected_task_store) \in Keys(df)
                THEN Some(Loc(df, Val(selected_task_store)).Projetos)
                ELSE None
          /\ selected_task_name =
                IF ~IsNone(selected_task_store)
                   /\ Val(selected_task_store) \in Keys(df)
                THEN LabelOf(Loc(df, Val(selected_task_store)).Nick)
                ELSE LabelNone
          /\ pending \in {<<c>> : c \in Range(CallbackOrder)}
          /\ clickData \in
                IF pending = <<"store_selected_task">>
                THEN {None} \cup
                     {Some(n) : n \in {r.Nick : r \in Range(df.data)}
                                         \cup {UnknownNick}}
                ELSE {None}
    /\ picker_disabled = IsNone(selected_task_store)
    /\ picker_date \in
          IF pending = <<"update_task_dates">> THEN RequestDates ELSE {NoDate}
    /\ n_clicks \in
          IF pending = <<"reset_to_original_dates">>
          THEN 0..MaxResetClicks ELSE {0}
    /\ figure = NoFigure
    /\ last = NoCall

HandlerSpec == (Init \/ HandlerInit) /\ [][Next]_vars

---------------------------------------------------------------------------
(* A second session of app.py                                              *)
(*                                                                         *)
(* Each browser tab on the app is a session with its own copies of the     *)
(* layout's properties.  'gantt-data-store' has storage_type='local': its  *)
(* value lives in the browser's localStorage under the store's id, which   *)
(* the tabs of one browser share.  dcc.Store reads the stored value when   *)
(* it mounts and takes over the new value when the browser tells it (the   *)
(* 'storage' event) that another tab has written the key.  The second      *)
(* session only loads the page and clicks bars; it does not edit.          *)

\* a step of the second session or of the browser, as `last` records it
Other(e) ==
    [callback |-> "other", kind |-> e, pre |-> Snapshot, event |-> last.event]
Storage(e) ==
    [callback |-> "storage", kind |-> e, pre |-> Snapshot,
     event |-> last.event]

\* a second tab loads the page, in the same browser or in another one
OtherSessionPageLoad ==
    /\ Idle
    /\ variant = "app"
    /\ ~other_session.open
    /\ \E same \in BOOLEAN :
          other_session' =
             [open |-> TRUE, same_browser |-> same,
              store |-> IF same THEN gantt_data_store
                        ELSE Some(to_json(df_inicial_calculado)),
              original |-> Some(to_json(df_inicial_calculado)),
              selected |-> None]
    /\ last' = Other("PageLoad")
    /\ UNCHANGED <<server, page, gantt_data_store, original_gantt_data_store,
                   selected_task_store, selected_project_store,
                   selected_task_name, picker_disabled, picker_date,
                   clickData, n_clicks, figure, pending>>

\* the user of the second tab clicks a bar of its chart: store_selected_task
\* runs on the second tab's stores
OtherSessionClickBar ==
    /\ variant = "app"
    /\ other_session.open
    /\ App_update_gantt_chart(other_session.store,
                              other_session.selected).kind = "ok"
    /\ \E nick \in {r.Nick : r \in Range(Val(other_session.store).data)} :
          LET r == App_store_selected_task(Some(nick), other_session.store,
                                           other_session.selected)
          IN  /\ r.kind = "ok"
              /\ other_session' = [other_session EXCEPT !.selected = r.selected]
    /\ last' = Other("ClickBar")
    /\ UNCHANGED <<server, page, gantt_data_store, original_gantt_data_store,
                   selected_task_store, selected_project_store,
                   selected_task_name, picker_disabled, picker_date,
                   clickData, n_clicks, figure, pending>>

\* the browser tells the second tab that 'gantt-data-store' was written in
\* localStorage: its dcc.Store takes the new value as its data
StorageEvent ==
    /\ variant = "app"
    /\ page = "loaded"
    /\ other_session.open
    /\ other_session.same_browser
    /\ other_session.store # gantt_data_store
    /\ other_session' = [other_session EXCEPT !.store = gantt_data_store]
    /\ last' = Storage("StorageEvent")
    /\ UNCHANGED <<server, page, gantt_data_store, original_gantt_data_store,
                   selected_task_store, selected_project_store,
                   selected_task_name, picker_disabled, picker_date,
                   clickData, n_clicks, figure, pending>>

SessionsNext ==
    \/ Next
    \/ OtherSessionPageLoad
    \/ OtherSessionClickBar
    \/ StorageEvent

SessionsSpec == Init /\ [][SessionsNext]_vars

---------------------------------------------------------------------------
(* Properties *)

\* the task key a clicked nick stands for in a stored schedule, if any
Resolved(click, json_data) ==
    LET df == Val(json_data)
        hits == {i \in DOMAIN df.data : df.data[i].Nick = Val(click)}
    IN  IF hits = {} THEN None ELSE Some(df.index[Min(hits)])

\* the stored schedule as dates and day counts
Schedule(json_data) == read_json_update(Val(json_data))

LastWas(c) == last.callback = c

\* update_task_dates ran on a date that parses and a key of the schedule
MoveRequested ==
    /\ LastWas("update_task_dates")
    /\ ~DateFalsy(last.pre.date)
    /\ DateParses(last.pre.date)
    /\ ~IsNone(last.pre.selected)
    /\ ~IsNone(last.pre.store)
    /\ Val(last.pre.selected) \in Keys(Val(last.pre.store))

(* C1: moveTask preserves duration.  Whenever update_task_dates (either    *)
(* variant) has run on a schedule, an existing task key k and a valid new  *)
(* start date d, task k of the stored schedule starts on d, ends on        *)
(* d + duration(before), and its duration field is what it was, so that    *)
(* endDate(after) - startDate(after) = duration(before).                   *)
C1_MovePreservesDuration ==
    MoveRequested =>
        LET k      == Val(last.pre.selected)
            before == Loc(Schedule(last.pre.store), k)
            after  == Loc(Schedule(gantt_data_store), k)
            d      == pd_to_datetime(last.pre.date)
        IN  /\ last.kind = "ok"
            /\ Loc(Val(gantt_data_store), k).DataInicio.ymd = last.pre.date.ymd
            /\ after.DataInicio = d
            /\ after.DataTermino = d + before.Duracao
            /\ after.Duracao = before.Duracao
            /\ after.DataTermino - after.DataInicio = before.Duracao

\* a task was moved to a picked date it did not start on
C1_Witness ==
    /\ MoveRequested
    /\ last.kind = "ok"
    /\ last.pre.date \in PickDates
    /\ Loc(Schedule(last.pre.store), Val(last.pre.selected)).DataInicio
          # pd_to_datetime(last.pre.date)

(* C2: reset restores the load-time schedule.  Whenever                    *)
(* reset_to_original_dates has run with n_clicks >= 1, the current         *)
(* schedule equals the original snapshot, which is the schedule derived at *)
(* load time, in every task and field, and the selection is Unselected     *)
(* (label "Nenhuma", picker disabled and empty).                           *)
C2_ResetRestoresOriginal ==
    (LastWas("reset_to_original_dates") /\ last.pre.clicks >= 1) =>
        /\ gantt_data_store = original_gantt_data_store
        /\ gantt_data_store = Some(to_json(df_inicial_calculado))
        /\ Schedule(gantt_data_store) = df_inicial_calculado
        /\ selected_task_store = None
        /\ selected_task_name = LabelNone
        /\ picker_disabled
        /\ picker_date = NoDate

\* a reset undid a move while a task was selected
C2_Witness ==
    /\ LastWas("reset_to_original_dates")
    /\ last.pre.clicks >= 1
    /\ last.pre.store # gantt_data_store
    /\ ~IsNone(last.pre.selected)

\* store_selected_task ran on a click on the bar of the selected task
SameTaskClicked ==
    /\ LastWas("store_selected_task")
    /\ ~IsNone(last.pre.click)
    /\ ~IsNone(last.pre.selected)
    /\ Resolved(last.pre.click, last.pre.store) = last.pre.selected

OtherTaskClicked ==
    /\ LastWas("store_selected_task")
    /\ ~IsNone(last.pre.click)
    /\ ~IsNone(last.pre.selected)
    /\ ~IsNone(Resolved(last.pre.click, last.pre.store))
    /\ Resolved(last.pre.click, last.pre.store) # last.pre.selected

(* C4: selection switch.  When store_selected_task (either variant) runs   *)
(* in Selected(key) on a click whose nick stands for another existing key  *)
(* newKey, the state it leaves is Selected(newKey): one transition, no     *)
(* Unselected state in between.                                            *)
C4_SwitchIsDirect ==
    OtherTaskClicked =>
        /\ last.kind = "ok"
        /\ selected_task_store = Resolved(last.pre.click, last.pre.store)
        /\ Val(selected_task_store) \in Keys(Val(gantt_data_store))

\* the selection went from one task to another in one step
C4_Witness ==
    /\ OtherTaskClicked
    /\ ~IsNone(selected_task_store)
    /\ selected_task_store # last.pre.selected

\* store_selected_task ran in Unselected on a click on a nick
ClickedWhileUnselected ==
    /\ LastWas("store_selected_task")
    /\ ~IsNone(last.pre.click)
    /\ IsNone(last.pre.selected)
    /\ ~IsNone(last.pre.store)

(* C5: from Unselected, click(nick) leaves Selected(key), key being the    *)
(* key of a task of the current schedule with that nick; when no task of   *)
(* the current schedule has the nick, the click is a no-op: the callback   *)
(* writes nothing, and selection, display fields and schedule are what     *)
(* they were.                                                              *)
C5_ClickFromUnselected ==
    ClickedWhileUnselected =>
        LET df   == Val(last.pre.store)
            nick == Val(last.pre.click)
        IN  IF \E k \in Keys(df) : Loc(df, k).Nick = nick
            THEN /\ ~IsNone(selected_task_store)
                 /\ Val(selected_task_store) \in Keys(df)
                 /\ Loc(df, Val(selected_task_store)).Nick = nick
            ELSE /\ last.kind = "no_update"
                 /\ selected_task_store = last.pre.selected
                 /\ selected_project_store = last.pre.project
                 /\ selected_task_name = last.pre.name
                 /\ picker_disabled = last.pre.disabled
                 /\ picker_date = last.pre.date
                 /\ gantt_data_store = last.pre.store
                 /\ original_gantt_data_store = last.pre.original
                 /\ figure = last.pre.figure
                 /\ pending = <<>>

\* a click on a nick no task has, while nothing was selected
C5_Witness ==
    /\ ClickedWhileUnselected
    /\ last.pre.click = Some(UnknownNick)
    /\ \A k \in Keys(Val(last.pre.store)) :
          Loc(Val(last.pre.store), k).Nick # UnknownNick
    /\ IsNone(selected_task_store)

(* C6: a click outside any bar (empty clickData) in Selected(key) leaves   *)
(* the state Unselected, and neither the click callback nor the            *)
(* update_task_dates call its cleared date triggers changes the schedule.  *)
C6_ClickOutsideDeselects ==
    /\ (LastWas("store_selected_task") /\ IsNone(last.pre.click)
            /\ ~IsNone(last.pre.selected)) =>
          /\ selected_task_store = None
          /\ gantt_data_store = last.pre.store
    /\ (LastWas("update_task_dates") /\ IsNone(clickData)
            /\ IsNone(last.pre.selected) /\ last.pre.date = NoDate) =>
          /\ selected_task_store = None
          /\ gantt_data_store = last.pre.store

\* a click outside the bars has deselected a task
C6_Witness ==
    /\ LastWas("store_selected_task")
    /\ IsNone(last.pre.click)
    /\ ~IsNone(last.pre.selected)
    /\ selected_task_store = None

\* the base dates calcular_datas of main.py is tried with
BaseDates == {ordem_de_servico + i : i \in 0..MaxBaseShift}

\* what deriveDates is to compute for raw task r and base date b
DerivedAsSpecified(out, r, b) ==
    /\ out.DataInicio = b + (r.MesInicio - 1) * 30
    /\ out.DataTermino = b + ((r.MesFim - 1) * 30 + 29)
    /\ out.Duracao = out.DataTermino - out.DataInicio
    /\ (r.MesInicio = 1 /\ r.MesFim = 2) =>
          /\ out.DataInicio = b
          /\ out.DataTermino = b + 59
          /\ out.Duracao = 59
          /\ b = ordem_de_servico =>
                /\ civil_from_days(out.DataInicio) = <<2025, 8, 1>>
                /\ civil_from_days(out.DataTermino) = <<2025, 9, 29>>

(* C7: deriveDates.  For the raw table main() works on, calcular_datas of  *)
(* app.py (base date 2025-08-01) and calcular_datas of main.py (for every  *)
(* base date) give each task startDate = base + (startMonth - 1) * 30      *)
(* days, endDate = base + ((endMonth - 1) * 30 + 29) days and duration =   *)
(* endDate - startDate; startMonth 1, endMonth 2 and base 2025-08-01 give  *)
(* 2025-08-01, 2025-09-29 and 59 days.  The schedule the server serves is  *)
(* derived so.                                                             *)
C7_DeriveDates ==
    LET raw == DfRaw(csv) IN
    /\ \A i \in DOMAIN raw.data :
          /\ DerivedAsSpecified(App_calcular_datas(raw).data[i], raw.data[i],
                                ordem_de_servico)
          /\ \A b \in BaseDates :
                DerivedAsSpecified(Main_calcular_datas(raw, b).data[i],
                                   raw.data[i], b)
    /\ pc = "serving" =>
          /\ DOMAIN df_inicial_calculado.data = DOMAIN raw.data
          /\ \A i \in DOMAIN raw.data :
                DerivedAsSpecified(df_inicial_calculado.data[i], raw.data[i],
                                   ordem_de_servico)

\* app.py serves dates derived for a task of months 1 to 2
C7_Witness ==
    /\ pc = "serving"
    /\ variant = "app"
    /\ \E i \in DOMAIN df_inicial_calculado.data :
          /\ df_inicial_calculado.data[i].MesInicio = 1
          /\ df_inicial_calculado.data[i].MesFim = 2
          /\ df_inicial_calculado.data[i].Duracao = 59

(* C8: the original snapshot is never mutated.  Once the server serves,    *)
(* the derived schedule does not change, and once a page is loaded no      *)
(* step (click, date pick, reset, reload, or a callback they trigger)      *)
(* changes the original store.                                             *)
C8_OriginalNeverMutated ==
    [][ /\ pc = "serving" => df_inicial_calculado' = df_inicial_calculado
        /\ page = "loaded" =>
              original_gantt_data_store' = original_gantt_data_store ]_vars

\* app.py after a reset, a click and a date pick: the current schedule has
\* moved away from the original, which is still the load-time schedule
C8_Witness ==
    /\ variant = "app"
    /\ page = "loaded"
    /\ n_clicks >= 1
    /\ ~IsNone(selected_task_store)
    /\ gantt_data_store # original_gantt_data_store
    /\ original_gantt_data_store = Some(to_json(df_inicial_calculado))

\* update_task_dates ran on inputs a move cannot be made from
FailedMove ==
    /\ LastWas("update_task_dates")
    /\ ~IsNone(last.pre.store)
    /\ \/ DateFalsy(last.pre.date)
       \/ ~DateParses(last.pre.date)
       \/ IsNone(last.pre.selected)
       \/ Val(last.pre.selected) \notin Keys(Val(last.pre.store))

(* C9: a failed move never corrupts the schedule.  Whenever                *)
(* update_task_dates (either variant) has run with a null, empty or        *)
(* unparseable new start date, with no selected key, or with a key the     *)
(* current schedule does not have, it has written nothing: the current     *)
(* schedule and every other store and display property are what they were. *)
C9_FailedMoveChangesNothing ==
    FailedMove =>
        /\ last.kind \in {"no_update", "raise"}
        /\ gantt_data_store = last.pre.store
        /\ original_gantt_data_store = last.pre.original
        /\ selected_task_store = last.pre.selected
        /\ selected_project_store = last.pre.project
        /\ selected_task_name = last.pre.name
        /\ picker_disabled = last.pre.disabled
        /\ picker_date = last.pre.date
        /\ figure = last.pre.figure

\* a date was picked for a key the schedule does not have
C9_Witness ==
    /\ FailedMove
    /\ last.pre.date \in PickDates
    /\ ~IsNone(last.pre.selected)
    /\ Val(last.pre.selected) \notin Keys(Val(last.pre.store))
    /\ last.kind = "raise"

(* C10: highlight with an active selection.  Whenever update_gantt_chart   *)
(* of app.py has run on a schedule and a selected key the schedule has,    *)
(* the figure has one bar per task, the bar of the selected task has       *)
(* opacity 1.0 and a border of width 5 in its project's colour, and every  *)
(* other bar has opacity 0.35.                                             *)
C10_SelectedBarHighlighted ==
    (/\ LastWas("update_gantt_chart")
     /\ variant = "app"
     /\ ~IsNone(last.pre.store)
     /\ ~IsNone(last.pre.selected)
     /\ Val(last.pre.selected) \in Keys(Val(last.pre.store))) =>
        /\ last.kind = "ok"
        /\ UNION {Range(figure[t].idx) : t \in DOMAIN figure}
              = Keys(Val(last.pre.store))
        /\ \A t \in DOMAIN figure : \A b \in DOMAIN figure[t].idx :
              IF figure[t].idx[b] = Val(last.pre.selected)
              THEN /\ figure[t].opacity[b] = default_opacity
                   /\ figure[t].line_width[b] = selected_line_width
                   /\ figure[t].line_color[b] = figure[t].color
              ELSE figure[t].opacity[b] = dimmed_opacity

\* update_gantt_chart of app.py ran on a stored schedule
AppChartRendered ==
    /\ LastWas("update_gantt_chart")
    /\ variant = "app"
    /\ ~IsNone(last.pre.store)

\* every bar of the displayed figure carries the hints of "no selection"
AllBarsNeutral(fig) ==
    \A t \in DOMAIN fig : \A b \in DOMAIN fig[t].idx :
        /\ fig[t].opacity[b] = default_opacity
        /\ fig[t].line_width[b] = default_line_width
        /\ fig[t].line_color[b] = default_line_color

(* C11: highlight with no selection.  Whenever update_gantt_chart of       *)
(* app.py has run on a schedule with the selection Unselected, the figure  *)
(* has one bar per task and every bar of every project has opacity 1.0 and *)
(* the thin neutral border (width 0.5, colour rgba(0,0,0,0.2)).            *)
C11_UnselectedBarsNeutral ==
    (AppChartRendered /\ IsNone(last.pre.selected)) =>
        /\ last.kind = "ok"
        /\ UNION {Range(figure[t].idx) : t \in DOMAIN figure}
              = Keys(Val(last.pre.store))
        /\ AllBarsNeutral(figure)

(* C12: stale selection when rendering.  Whenever update_gantt_chart of    *)
(* app.py has run on a schedule and a selected key the schedule does not   *)
(* have, it has not failed and the figure is the one it returns for the    *)
(* same schedule with the selection Unselected: one bar per task, each     *)
(* with opacity 1.0 and the thin neutral border.                           *)
C12_StaleSelectionRendersUnselected ==
    (/\ AppChartRendered
     /\ ~IsNone(last.pre.selected)
     /\ Val(last.pre.selected) \notin Keys(Val(last.pre.store))) =>
        /\ last.kind = "ok"
        /\ App_update_gantt_chart(last.pre.store, None).kind = "ok"
        /\ figure = App_update_gantt_chart(last.pre.store, None).figure
        /\ UNION {Range(figure[t].idx) : t \in DOMAIN figure}
              = Keys(Val(last.pre.store))
        /\ AllBarsNeutral(figure)

(* C13: display fields track the selection state (app.py).  Whenever every *)
(* callback triggered by a click, a reset (or a date pick) has run: if the *)
(* state is Unselected, the label is "Nenhuma" and the date picker is      *)
(* disabled and empty; if the state is Selected(key), key is a task of the *)
(* current schedule, the label is that task's nick in quotes, the date     *)
(* picker is enabled and its value is that task's current start date.      *)
C13_DisplayTracksSelection ==
    (Idle /\ variant = "app") =>
        IF IsNone(selected_task_store)
        THEN /\ selected_task_name = LabelNone
             /\ picker_disabled
             /\ picker_date = NoDate
        ELSE /\ Val(selected_task_store) \in Keys(Val(gantt_data_store))
             /\ LET task == Loc(Schedule(gantt_data_store),
                                Val(selected_task_store))
                IN  /\ selected_task_name = LabelOf(task.Nick)
                    /\ ~picker_disabled
                    /\ DateParses(picker_date)
                    /\ pd_to_datetime(picker_date) = task.DataInicio

\* app.py: a click selected a task that an earlier date pick had moved
C13_Witness ==
    /\ Idle
    /\ variant = "app"
    /\ ~IsNone(selected_task_store)
    /\ picker_date.kind = "datetime"
    /\ Loc(Schedule(gantt_data_store), Val(selected_task_store)).DataInicio
          # Loc(df_inicial_calculado, Val(selected_task_store)).DataInicio

(* C14: loader range validation.  Once main() has called the loader on a   *)
(* file that has every required column and at least one row:               *)
(* load_schedule_data has failed exactly when some                         *)
(* row has startMonth > endMonth, and the error then lists every such row  *)
(* and no other, each with its item, startMonth and endMonth and under the *)
(* row number 0-based data row index + 2, in file order; otherwise it      *)
(* returns all rows, and these are the rows main() derives the dates of.   *)
C14_LoaderRangeValidation ==
    LET loaded == load_schedule_data(csv)
        rows   == csv.rows
        bad    == {i \in DOMAIN rows : rows[i].MesInicio > rows[i].MesFim}
    IN  (/\ pc # "start"
         /\ csv.exists /\ required_cols \subseteq csv.columns /\ rows # <<>>) =>
            IF bad # {}
            THEN /\ ~loaded.ok
                 /\ loaded.error = "ValueError: invalid range"
                 /\ Len(loaded.invalid_rows) = Cardinality(bad)
                 /\ Range(loaded.invalid_rows) =
                       { [row |-> (i - 1) + 2, Item |-> rows[i].Item,
                          MesInicio |-> rows[i].MesInicio,
                          MesFim |-> rows[i].MesFim] : i \in bad }
                 /\ \A j \in DOMAIN loaded.invalid_rows :
                       \A k \in DOMAIN loaded.invalid_rows :
                          j < k => loaded.invalid_rows[j].row
                                      < loaded.invalid_rows[k].row
            ELSE /\ loaded.ok
                 /\ loaded.df.data = rows
                 /\ pc = "serving" =>
                       [i \in DOMAIN df_inicial_calculado.data |->
                           Row(df_inicial_calculado.data[i].Item,
                               df_inicial_calculado.data[i].Nick,
                               df_inicial_calculado.data[i].Projetos,
                               df_inicial_calculado.data[i].MesInicio,
                               df_inicial_calculado.data[i].MesFim)] = rows

\* the raw fields of the rows of a schedule
RawRows(df) ==
    [i \in DOMAIN df.data |->
        Row(df.data[i].Item, df.data[i].Nick, df.data[i].Projetos,
            df.data[i].MesInicio, df.data[i].MesFim)]

(* C15: load failure degrades to the fallback.  Whenever main() has run    *)
(* and load_schedule_data failed on the file (missing file, missing        *)
(* column, no rows, reversed months), main() went on with the example      *)
(* table of exactly the three tasks (1, Tarefa A, Projeto 1, 1, 3),        *)
(* (2, Tarefa B, Projeto 1, 4, 6), (3, Tarefa C, Projeto 2, 2, 5), the     *)
(* test gate passed on it, the server serves, and the schedule a session   *)
(* starts with holds these tasks with the dates derived from them.         *)
C15_LoadFailureFallsBack ==
    (pc # "start" /\ ~load_schedule_data(csv).ok) =>
        LET derived == calcular_datas(variant, Frame(FallbackRows)) IN
        /\ DfRaw(csv) = Frame(FallbackRows)
        /\ Len(DfRaw(csv).data) = 3
        /\ run_tests(variant, DfRaw(csv))
        /\ pc = "serving"
        /\ df_inicial_calculado = derived
        /\ RawRows(df_inicial_calculado) =
              << Row(1, "Tarefa A", "Projeto 1", 1, 3),
                 Row(2, "Tarefa B", "Projeto 1", 4, 6),
                 Row(3, "Tarefa C", "Projeto 2", 2, 5) >>
        /\ page = "loaded" =>
              /\ RawRows(Schedule(gantt_data_store)) = FallbackRows
              /\ variant = "app" =>
                    original_gantt_data_store = Some(to_json(derived))
              /\ last = NoCall => gantt_data_store = Some(to_json(derived))

\* a file without the column 'Mês Fim': the page was loaded with the
\* schedule derived from the example table
C15_Witness ==
    /\ csv.exists
    /\ "MesFim" \notin csv.columns
    /\ page = "loaded"
    /\ Len(Val(gantt_data_store).data) = 3
    /\ Schedule(gantt_data_store).data[1].Nick = "Tarefa A"
    /\ Schedule(gantt_data_store).data[1].DataTermino
          = ordem_de_servico + 89

(* C16: session isolation.  With a second session of app.py open, no step  *)
(* other than the second session's own events (a click, date pick or reset *)
(* of the first session, a callback it triggers, or what the browser does  *)
(* in consequence) changes the second session's current schedule,          *)
(* original snapshot or selection.                                         *)
C16_SessionIsolation ==
    [][ (other_session.open /\ last'.callback # "other") =>
            /\ other_session'.store = other_session.store
            /\ other_session'.original = other_session.original
            /\ other_session'.selected = other_session.selected ]_vars

C19_SelectionNotPersisted ==
    [][ /\ page' = "none" => selected_task_store' = None
        /\ (pc = "serving" /\ pending = <<>> /\ last' = NoCall) =>
              /\ page' = "loaded"
              /\ selected_task_store' = None
              /\ selected_task_name' = LabelNone
              /\ picker_disabled'
              /\ picker_date' = NoDate
              /\ (variant = "app" /\ page = "loaded") =>
                    /\ gantt_data_store' = gantt_data_store
                    /\ original_gantt_data_store'
                          = Some(to_json(df_inicial_calculado))
        /\ (page = "loaded" /\ last = NoCall) =>
              /\ selected_task_store' = None
              /\ selected_task_name' = LabelNone
              /\ picker_disabled' ]_vars

\* app.py right after a reload: nothing is selected and the current
\* schedule is still the edited one
C19_Witness ==
    /\ variant = "app"
    /\ page = "loaded"
    /\ last = NoCall
    /\ selected_task_store = None
    /\ picker_disabled
    /\ gantt_data_store # original_gantt_data_store

(* C20: schedule date invariant.  In every state reachable from load by    *)
(* clicks, date picks and resets (and reloads), every task of the current  *)
(* schedule has endDate - startDate = duration, endDate >= startDate and   *)
(* duration >= 0, and its duration is the one derived for that task at     *)
(* load time; the current schedule has the tasks of the load-time          *)
(* schedule, under the same keys.                                          *)
C20_ScheduleDateInvariant ==
    (page = "loaded" /\ ~IsNone(gantt_data_store)) =>
        LET S == Schedule(gantt_data_store) IN
        /\ S.index = df_inicial_calculado.index
        /\ RawRows(S) = RawRows(df_inicial_calculado)
        /\ \A k \in Keys(S) :
              /\ Loc(S, k).DataTermino - Loc(S, k).DataInicio = Loc(S, k).Duracao
              /\ Loc(S, k).DataTermino >= Loc(S, k).DataInicio
              /\ Loc(S, k).Duracao >= 0
              /\ Loc(S, k).Duracao = Loc(df_inicial_calculado, k).Duracao

\* a task was moved, the other task had been moved before
C20_Witness ==
    /\ page = "loaded"
    /\ LastWas("update_task_dates")
    /\ last.kind = "ok"
    /\ \A k \in Keys(Schedule(gantt_data_store)) :
          Loc(Schedule(gantt_data_store), k).DataInicio
             # Loc(df_inicial_calculado, k).DataInicio
    /\ Cardinality(Keys(Schedule(gantt_data_store))) = 2

\* update_task_dates ran on a valid request and returned a schedule
Moved == MoveRequested /\ last.kind = "ok"

DurationOfMonths(r) == (r.MesFim - r.MesInicio) * 30 + 29

(* C22: single-month duration and lower bound.  For the raw table main()   *)
(* works on, every task has startMonth <= endMonth, and calcular_datas of  *)
(* app.py and of main.py (for every base date) give it the duration        *)
(* (endMonth - startMonth) * 30 + 29 days: exactly 29 days when startMonth *)
(* = endMonth, and never less than 29 days.  The schedule the server       *)
(* serves has these durations.                                             *)
C22_DurationBound ==
    pc # "start" =>
        LET raw == DfRaw(csv) IN
        /\ \A i \in DOMAIN raw.data :
              LET r == raw.data[i] IN
              /\ r.MesInicio <= r.MesFim
              /\ App_calcular_datas(raw).data[i].Duracao = DurationOfMonths(r)
              /\ \A b \in BaseDates :
                    Main_calcular_datas(raw, b).data[i].Duracao
                       = DurationOfMonths(r)
              /\ DurationOfMonths(r) >= 29
              /\ r.MesInicio = r.MesFim => DurationOfMonths(r) = 29
        /\ pc = "serving" =>
              \A i \in DOMAIN df_inicial_calculado.data :
                 LET t == df_inicial_calculado.data[i] IN
                 /\ t.Duracao = DurationOfMonths(raw.data[i])
                 /\ t.Duracao >= 29
                 /\ t.MesInicio = t.MesFim => t.Duracao = 29

\* main.py serves a task of a single month other than the first: 29 days
C22_Witness ==
    /\ pc = "serving"
    /\ variant = "main"
    /\ \E i \in DOMAIN df_inicial_calculado.data :
          /\ df_inicial_calculado.data[i].MesInicio = 2
          /\ df_inicial_calculado.data[i].MesFim = 2
          /\ df_inicial_calculado.data[i].Duracao = 29
          /\ df_inicial_calculado.data[i].DataInicio = ordem_de_servico + 30

(* C23: the two date derivations are equivalent.  For the raw table main() *)
(* works on, calcular_datas(df) of app.py and calcular_datas(df,           *)
(* ordem_de_servico) of main.py give every task the same start date, end   *)
(* date and duration (the same table), and the schedule the server serves  *)
(* is that table in either variant.                                        *)
C23_VariantsEquivalent ==
    pc # "start" =>
        LET raw    == DfRaw(csv)
            by_app  == App_calcular_datas(raw)
            by_main == Main_calcular_datas(raw, ordem_de_servico)
        IN  /\ DOMAIN by_app.data = DOMAIN by_main.data
            /\ \A i \in DOMAIN raw.data :
                  /\ by_app.data[i].DataInicio = by_main.data[i].DataInicio
                  /\ by_app.data[i].DataTermino = by_main.data[i].DataTermino
                  /\ by_app.data[i].Duracao = by_main.data[i].Duracao
            /\ by_app = by_main
            /\ pc = "serving" =>
                  /\ df_inicial_calculado = by_app
                  /\ df_inicial_calculado = by_main

\* main.py serves the two-task schedule app.py derives from the same file
C23_Witness ==
    /\ pc = "serving"
    /\ variant = "main"
    /\ load_schedule_data(csv).ok
    /\ Len(df_inicial_calculado.data) = 2
    /\ df_inicial_calculado = App_calcular_datas(DfRaw(csv))
    /\ df_inicial_calculado.data[1].DataTermino
          # df_inicial_calculado.data[2].DataTermino

\* update_gantt_chart of main.py ran on a stored schedule
MainChartRendered ==
    /\ LastWas("update_gantt_chart")
    /\ variant = "main"
    /\ ~IsNone(last.pre.store)

\* the opacity of the bar the displayed figure draws for task j, if one and
\* only one bar is drawn for it
BarOpacity(j) ==
    LET bars == {tb \in UNION {{<<t, b>> : b \in DOMAIN figure[t].idx} :
                                  t \in DOMAIN figure} :
                    figure[tb[1]].idx[tb[2]] = j}
    IN  IF Cardinality(bars) = 1
        THEN Some(figure[(CHOOSE tb \in bars : TRUE)[1]].opacity)
        ELSE None

(* C24: project-level highlight in main.py.  Whenever update_gantt_chart   *)
(* of main.py has run, it returned a figure with one bar per task; when a  *)
(* task is selected, the bar of every task of the selected task's project  *)
(* has opacity 1.0 and the bar of every task of another project has        *)
(* opacity 0.3; when no task is selected every bar has opacity 1.0.        *)
C24_ProjectHighlight ==
    MainChartRendered =>
        LET sched == Val(last.pre.store) IN
        /\ last.kind = "ok"
        /\ \A j \in Keys(sched) :
              BarOpacity(j) =
                 IF IsNone(selected_task_store) THEN Some(default_opacity)
                 ELSE IF Loc(sched, j).Projetos
                            = Loc(sched, Val(selected_task_store)).Projetos
                      THEN Some(default_opacity)
                      ELSE Some(Main_dimmed_opacity)

(* C25: selection validity (app.py).  In every state of a session of       *)
(* app.py, whatever clicks, date picks and resets led to it, the selection *)
(* is Unselected or Selected(key) with key a key of the current schedule;  *)
(* and whenever update_task_dates has run with a selection, its key was a  *)
(* key of the schedule it was given, so it did not fail.                   *)
C25_SelectionValid ==
    variant = "app" =>
        /\ ~IsNone(selected_task_store) =>
              /\ ~IsNone(gantt_data_store)
              /\ Val(selected_task_store) \in Keys(Val(gantt_data_store))
        /\ (LastWas("update_task_dates") /\ ~IsNone(last.pre.selected)) =>
              /\ ~IsNone(last.pre.store)
              /\ Val(last.pre.selected) \in Keys(Val(last.pre.store))
              /\ last.kind # "raised"

\* app.py: a reset restored the schedule after a move, then the second task
\* was selected and moved
C25_Witness ==
    /\ variant = "app"
    /\ n_clicks > 0
    /\ LastWas("update_task_dates")
    /\ last.kind = "ok"
    /\ last.event.kind = "PickDate"
    /\ ~IsNone(selected_task_store)
    /\ Len(Val(gantt_data_store).index) = 2
    /\ Val(selected_task_store) = Val(gantt_data_store).index[2]
    /\ gantt_data_store # original_gantt_data_store

\* the dates and the duration of every task of a stored schedule
Dates(json_data) ==
    LET df == Schedule(json_data)
    IN  [j \in Keys(df) |->
            [DataInicio |-> Loc(df, j).DataInicio,
             DataTermino |-> Loc(df, j).DataTermino,
             Duracao |-> Loc(df, j).Duracao]]

\* every callback the user's last action triggered has run
ChainCompletedAfter(events) ==
    /\ Idle
    /\ last.event.kind \in events
    /\ ~IsNone(last.event.pre.store)

(* C26: selecting never edits the schedule.  Whenever every callback       *)
(* triggered by a click on a bar or outside the bars has run (the click    *)
(* sets the date picker, which triggers update_task_dates), in either      *)
(* variant, the current schedule has the tasks it had before the click and *)
(* each has the start date, end date and duration it had before the click. *)
C26_SelectingKeepsSchedule ==
    ChainCompletedAfter({"ClickBar", "ClickOutside"}) =>
        /\ ~IsNone(gantt_data_store)
        /\ Dates(gantt_data_store) = Dates(last.event.pre.store)
        /\ Schedule(gantt_data_store) = Schedule(last.event.pre.store)

\* a click switched the selection to the second task of a schedule whose
\* first task had been moved, and update_task_dates ran on its start date
C26_Witness ==
    /\ ChainCompletedAfter({"ClickBar"})
    /\ ~IsNone(last.event.pre.selected)
    /\ ~IsNone(selected_task_store)
    /\ selected_task_store # last.event.pre.selected
    /\ Len(Val(gantt_data_store).index) = 2
    /\ Val(selected_task_store) = Val(gantt_data_store).index[2]
    /\ picker_date.kind = "datetime"
    /\ pd_to_datetime(picker_date)
          = Loc(Schedule(gantt_data_store),
                Val(selected_task_store)).DataInicio
    /\ Dates(gantt_data_store) # Dates(Some(to_json(df_inicial_calculado)))

(* C27: a date pick is applied to the task selected at that moment.        *)
(* Whenever every callback triggered by the pick of a date d has run and   *)
(* the state was Selected(key) when the user picked: the selection is      *)
(* still that key, the label shows the nick of that task, that task        *)
(* starts on d and keeps its duration, every other task (a previously      *)
(* selected one included) is as it was before the pick, and the date       *)
(* picker's value is that task's start date.                               *)
C27_PickMovesSelectedTask ==
    (ChainCompletedAfter({"PickDate"}) /\ ~IsNone(last.event.pre.selected)) =>
        LET key    == Val(last.event.pre.selected)
            before == Schedule(last.event.pre.store)
            after  == Schedule(gantt_data_store)
        IN  /\ selected_task_store = Some(key)
            /\ key \in Keys(after)
            /\ selected_task_name = LabelOf(Loc(after, key).Nick)
            /\ picker_date \in PickDates
            /\ Loc(after, key).DataInicio = pd_to_datetime(picker_date)
            /\ Loc(after, key).DataTermino
                  = pd_to_datetime(picker_date) + Loc(before, key).Duracao
            /\ Keys(after) = Keys(before)
            /\ \A j \in Keys(before) \ {key} : Loc(after, j) = Loc(before, j)

\* the second task was picked a date after the first, selected before it,
\* had been moved to another date
C27_Witness ==
    /\ ChainCompletedAfter({"PickDate"})
    /\ ~IsNone(last.event.pre.selected)
    /\ gantt_data_store # last.event.pre.store
    /\ Len(Val(gantt_data_store).index) = 2
    /\ LET key    == Val(last.event.pre.selected)
           first  == Val(gantt_data_store).index[1]
       IN  /\ key = Val(gantt_data_store).index[2]
           /\ Dates(gantt_data_store)[first]
                 # Dates(Some(to_json(df_inicial_calculado)))[first]
           /\ Dates(gantt_data_store)[first].DataInicio
                 # pd_to_datetime(picker_date)

=============================================================================
